---- MODULE Spec2Model ----
(***************************************************************************)
(* CoT_streamlit.py: a Streamlit script that loads one sheet of a          *)
(* spreadsheet (cached by st.cache_data), derives date/year/seasonal_date, *)
(* reads three sidebar widgets and draws a 2x2 seasonal chart.             *)
(*                                                                         *)
(* Streamlit runs the whole script top to bottom on every interaction      *)
(* (a "render pass").  One action of this model is one render pass,        *)
(* together with the interaction that caused it.                           *)
(***************************************************************************)
EXTENDS Integers, Sequences, FiniteSets, TLC

VARIABLES
    file,            \* the sheet "Cotton" of CFTC_Disaggregated_COT_Ags.xlsx
    cache,           \* st.cache_data entry of load_data(): NoTable or a table
    reads,           \* number of times pd.read_excel has run in this process
    derives,         \* number of times lines 37-41 have run in this process
    passes,          \* number of render passes started in this process
    session,         \* "none" before the page is opened, "open" afterwards
    df,              \* the script's df after lines 35-41 of the last pass
    available_years, \* line 50
    years_selected,  \* value of the Years multiselect (selection order)
    trader_choice,   \* value of the Trader Type selectbox
    crop_choice,     \* value of the Crop selectbox
    cols,            \* line 111
    df_plot,         \* lines 112-128
    current_year,    \* line 51, reassigned on line 146
    color_map,       \* line 150
    fig,             \* the figure built on lines 131-195
    chart,           \* what st.plotly_chart was given (NoChart if not reached)
    halted           \* "none", or the line whose exception ended the pass

vars == << file, cache, reads, derives, passes, session, df, available_years,
           years_selected, trader_choice, crop_choice, cols, df_plot,
           current_year, color_map, fig, chart, halted >>

-----------------------------------------------------------------------------
(* Bounds of the model *)

\* rows of the sheet in the interactive specification
MaxRows == 3
\* render passes explored per process
MaxPasses == 3
\* distinct calendar years a sheet may hold when the default selection is checked
MaxDefaultYears == 8
\* distinct calendar years of the sheet when the colour assignment is checked
MaxColorYears == 11
\* years of that sheet a drawn selection may leave out
MaxUnselected == 2

-----------------------------------------------------------------------------
(* Cell values.  A spreadsheet cell is a number, a text or blank; after    *)
(* pd.to_numeric a value is a number or NaN.  Python None and pd.NA are    *)
(* kept apart from NaN.  Text is a sequence of one-character strings.      *)

NaN == [t |-> "nan", n |-> 0, s |-> << >>]
PyNone == [t |-> "none", n |-> 0, s |-> << >>]
PdNA == [t |-> "pdna", n |-> 0, s |-> << >>]
Num(n) == [t |-> "num", n |-> n, s |-> << >>]
Txt(s) == [t |-> "txt", n |-> 0, s |-> s]

IsMissing(v) == v.t \in {"nan", "none", "pdna"}

Digits == {"0", "1", "2", "3", "4", "5", "6", "7", "8", "9"}

DigitVal(ch) ==
    CASE ch = "0" -> 0 [] ch = "1" -> 1 [] ch = "2" -> 2 [] ch = "3" -> 3
      [] ch = "4" -> 4 [] ch = "5" -> 5 [] ch = "6" -> 6 [] ch = "7" -> 7
      [] ch = "8" -> 8 [] ch = "9" -> 9

RECURSIVE ParseDigits(_)
ParseDigits(s) ==
    IF s = << >> THEN 0
    ELSE 10 * ParseDigits(SubSeq(s, 1, Len(s) - 1)) + DigitVal(s[Len(s)])

AllDigits(s) == s # << >> /\ \A i \in 1..Len(s) : s[i] \in Digits

\* pd.to_numeric(value, errors="coerce") on one cell
ToNumeric(v) ==
    CASE v.t = "num" -> v
      [] v.t = "txt" ->
           IF AllDigits(v.s) THEN Num(ParseDigits(v.s))
           ELSE IF Len(v.s) > 1 /\ v.s[1] = "-" /\ AllDigits(Tail(v.s))
                THEN Num(0 - ParseDigits(Tail(v.s)))
                ELSE NaN
      [] OTHER -> NaN

-----------------------------------------------------------------------------
(* Static tables of the script *)

None == "None"

TraderNames ==
    << "PMPU", "Swap Dealer", "Money Managers", "Other Reportables",
       "Nonreportables" >>

trader_map(k) ==
    CASE k = "PMPU" ->
           [long |-> "prod_merc_positions_long",
            short |-> "prod_merc_positions_short",
            spread |-> None]
      [] k = "Swap Dealer" ->
           [long |-> "swap_positions_long_all",
            short |-> "swap__positions_short_all",
            spread |-> "swap__positions_spread_all"]
      [] k = "Money Managers" ->
           [long |-> "m_money_positions_long_all",
            short |-> "m_money_positions_short_all",
            spread |-> "m_money_positions_spread"]
      [] k = "Other Reportables" ->
           [long |-> "other_rept_positions_long",
            short |-> "other_rept_positions_short",
            spread |-> "other_rept_positions_spread"]
      [] k = "Nonreportables" ->
           [long |-> "nonrept_positions_long_all",
            short |-> "nonrept_positions_short_all",
            spread |-> None]

CropNames == << "All", "Old Crop", "Other Crop" >>

crop_map(c) ==
    CASE c = "All" -> ""
      [] c = "Old Crop" -> "_1"
      [] c = "Other Crop" -> "_2"

\* px.colors.qualitative.Plotly
palette ==
    << "#636EFA", "#EF553B", "#00CC96", "#AB63FA", "#FFA15A",
       "#19D3F3", "#FF6692", "#B6E880", "#FF97FF", "#FECB52" >>

panels ==
    << [col |-> "pos_long", r |-> 1, c |-> 1],
       [col |-> "pos_short", r |-> 1, c |-> 2],
       [col |-> "pos_net", r |-> 2, c |-> 1],
       [col |-> "pos_spread", r |-> 2, c |-> 2] >>

subplot_titles == << "Long", "Short", "Net", "Spreading" >>

SpreadNote == "Spreading not available for this trader type"

Range(s) == {s[i] : i \in 1..Len(s)}

-----------------------------------------------------------------------------
(* Python built-ins used by the script *)

\* the sorted sequence s with x inserted after the elements not above it
RECURSIVE InsertSorted(_, _)
InsertSorted(x, s) ==
    IF s = << >> THEN << x >>
    ELSE IF s[Len(s)] <= x THEN Append(s, x)
         ELSE Append(InsertSorted(x, SubSeq(s, 1, Len(s) - 1)), s[Len(s)])

\* sorted(s), ascending
RECURSIVE sorted(_)
sorted(s) ==
    IF s = << >> THEN << >>
    ELSE InsertSorted(s[Len(s)], sorted(SubSeq(s, 1, Len(s) - 1)))

\* Series.unique(): the distinct values in order of first appearance
RECURSIVE unique(_)
unique(s) ==
    IF s = << >> THEN << >>
    ELSE LET front == unique(SubSeq(s, 1, Len(s) - 1))
         IN  IF s[Len(s)] \in Range(front) THEN front
             ELSE Append(front, s[Len(s)])

\* the rows whose year is in the set yset, in order (a boolean mask)
RECURSIVE RowsOfYears(_, _)
RowsOfYears(rows, yset) ==
    IF rows = << >> THEN << >>
    ELSE LET front == RowsOfYears(SubSeq(rows, 1, Len(rows) - 1), yset)
             last == rows[Len(rows)]
         IN  IF last.year \in yset THEN Append(front, last) ELSE front

\* max(s) of a non-empty sequence; max of an empty sequence raises ValueError
MaxOf(s) == CHOOSE x \in Range(s) : \A z \in Range(s) : z <= x

-----------------------------------------------------------------------------
(* Lines 31-41: load_data and the derived columns *)

NoTable == [columns |-> {}, rows |-> << >>, loaded |-> FALSE]

\* st.cache_data: is there an entry for load_data()?
CacheHitNever(c) == FALSE
CacheHit(c) == c.loaded

\* pd.read_excel(..., sheet_name="Cotton")
read_excel(f) == [columns |-> f.columns, rows |-> f.rows, loaded |-> TRUE]

\* the cache entry after the call load_data()
CacheAfterLoad(c, f) == IF CacheHit(c) THEN c ELSE read_excel(f)

\* file reads made by the call load_data()
ReadsOfLoad(c) == IF CacheHit(c) THEN 0 ELSE 1

\* the reference year of seasonal_date
RefYear == 2000

\* pd.to_datetime on a report date; the text "yyyy-mm-dd" is held as the
\* number yyyymmdd
to_datetime(n) == [y |-> n \div 10000, m |-> (n \div 100) % 100, d |-> n % 100]

\* "2000-" + strftime("%m-%d"), parsed again
seasonal_date(date) == [y |-> RefYear, m |-> date.m, d |-> date.d]

DateKey(date) == date.y * 10000 + date.m * 100 + date.d

DeriveRow(row) ==
    LET date == to_datetime(row.report_date)
    IN  [report_date |-> row.report_date, cells |-> row.cells,
         date |-> date, year |-> date.y, seasonal_date |-> seasonal_date(date)]

\* lines 37-41 applied to the table returned by load_data()
Derive(tbl) ==
    [columns |-> tbl.columns \cup {"date", "year", "seasonal_date"},
     rows |-> [i \in 1..Len(tbl.rows) |-> DeriveRow(tbl.rows[i])]]

\* how many times lines 37-41 run in a pass whose load_data() call hit (or
\* missed) the cache: they are top-level statements of the script
DerivesOnlyOnMiss(hit) == IF hit THEN 0 ELSE 1
DerivesOfPass(hit) == 1

-----------------------------------------------------------------------------
(* Lines 50-57: available years and the default of the multiselect *)

AvailableYears(frame) ==
    sorted(unique([i \in 1..Len(frame.rows) |-> frame.rows[i].year]))

\* available_years[:6]
FirstSix(av) == SubSeq(av, 1, IF Len(av) < 6 THEN Len(av) ELSE 6)
\* available_years[-6:]
DefaultYears(av) == SubSeq(av, IF Len(av) > 6 THEN Len(av) - 5 ELSE 1, Len(av))

-----------------------------------------------------------------------------
(* Lines 111-128: the four series *)

\* line 111; crop_choice is in scope here and is not used
ColumnsWithCrop(trader, crop) ==
    IF crop = "All" THEN trader_map(trader)
    ELSE [long |-> None, short |-> None, spread |-> trader_map(trader).spread]
ColumnsOf(trader, crop) == trader_map(trader)

\* line 112
PlotRows(frame, ys) == RowsOfYears(frame.rows, Range(ys))

\* lines 115-118; none = TRUE stands for the return value None
series_from_col(colname, columns, rows) ==
    IF colname = None \/ colname \notin columns
    THEN [none |-> TRUE, vals |-> << >>]
    ELSE [none |-> FALSE,
          vals |-> [i \in 1..Len(rows) |-> ToNumeric(rows[i].cells[colname])]]

\* assigning a series or the scalar None to a column of n rows
AsColumn(ser, n) == IF ser.none THEN [i \in 1..n |-> PyNone] ELSE ser.vals

\* one element of pos_long - pos_short; an operand that is missing gives NaN
NetSum(l, s) == IF l.t = "num" /\ s.t = "num" THEN Num(l.n + s.n) ELSE NaN
Net(l, s) == IF l.t = "num" /\ s.t = "num" THEN Num(l.n - s.n) ELSE NaN

\* lines 125-128
SpreadColumn(c, columns, rows) ==
    IF c.spread = None THEN [i \in 1..Len(rows) |-> PdNA]
    ELSE AsColumn(series_from_col(c.spread, columns, rows), Len(rows))

\* df_plot after line 128
DfPlot(frame, ys, c) ==
    LET rows == PlotRows(frame, ys)
        long == AsColumn(series_from_col(c.long, frame.columns, rows), Len(rows))
        short == AsColumn(series_from_col(c.short, frame.columns, rows), Len(rows))
        spread == SpreadColumn(c, frame.columns, rows)
    IN  [i \in 1..Len(rows) |->
            [report_date |-> rows[i].report_date,
             year |-> rows[i].year,
             seasonal_date |-> rows[i].seasonal_date,
             pos_long |-> long[i],
             pos_short |-> short[i],
             pos_net |-> Net(long[i], short[i]),
             pos_spread |-> spread[i]]]

-----------------------------------------------------------------------------
(* Lines 146-195: the figure *)

\* max(s): raised = TRUE stands for the ValueError of an empty argument
PyMaxDefault(s) ==
    IF s = << >> THEN [raised |-> FALSE, value |-> 0]
    ELSE [raised |-> FALSE, value |-> MaxOf(s)]
PyMax(s) ==
    IF s = << >> THEN [raised |-> TRUE, value |-> 0]
    ELSE [raised |-> FALSE, value |-> MaxOf(s)]

\* the value current_year has in the trace loop (line 146 overwrites line 51)
CurrentYearOfData(ys, av) == PyMax(av).value
CurrentYear(ys, av) == PyMax(ys).value

\* line 149
YearsUnsorted(ys) == ys
YearsSorted(ys) == sorted(ys)

\* line 150: year -> palette[i % len(palette)], i the index in years_sorted
ColorMap(ys) ==
    LET ordered == YearsSorted(ys)
        IndexOf(y) == CHOOSE i \in 1..Len(ordered) :
                         /\ ordered[i] = y
                         /\ \A j \in (i + 1)..Len(ordered) : ordered[j] # y
    IN  [y \in Range(ys) |-> palette[((IndexOf(y) - 1) % Len(palette)) + 1]]

\* lines 156-157; 1.5 and 0.6 are kept as text
LineWidth(is_current) == IF is_current THEN "4" ELSE "1.5"
Opacity(is_current) == IF is_current THEN "1.0" ELSE "0.6"

\* rows sorted by seasonal_date, ties in their given order
RECURSIVE InsertBySeason(_, _)
InsertBySeason(row, s) ==
    IF s = << >> THEN << row >>
    ELSE IF DateKey(s[Len(s)].seasonal_date) <= DateKey(row.seasonal_date)
         THEN Append(s, row)
         ELSE Append(InsertBySeason(row, SubSeq(s, 1, Len(s) - 1)), s[Len(s)])

RECURSIVE SortBySeason(_)
SortBySeason(rows) ==
    IF rows = << >> THEN << >>
    ELSE InsertBySeason(rows[Len(rows)],
                        SortBySeason(SubSeq(rows, 1, Len(rows) - 1)))

\* line 153
YearRows(plot, y) == SortBySeason(RowsOfYears(plot, {y}))

ColumnValue(row, col) ==
    CASE col = "pos_long" -> row.pos_long
      [] col = "pos_short" -> row.pos_short
      [] col = "pos_net" -> row.pos_net
      [] col = "pos_spread" -> row.pos_spread

\* line 161: is the panel left without a trace?
SkipNever(col, c) == FALSE
SkipPanel(col, c) == col = "pos_spread" /\ c.spread = None

\* lines 164-176
Trace(y, tmp, panel, is_current, cmap) ==
    [name |-> y, legendgroup |-> y,
     showlegend |-> (panel.r = 1 /\ panel.c = 1),
     x |-> [i \in 1..Len(tmp) |-> tmp[i].seasonal_date],
     y |-> [i \in 1..Len(tmp) |-> ColumnValue(tmp[i], panel.col)],
     width |-> LineWidth(is_current), color |-> cmap[y],
     opacity |-> Opacity(is_current),
     row |-> panel.r, col |-> panel.c]

\* lines 159-176 for one year
RECURSIVE PanelTraces(_, _, _, _, _, _)
PanelTraces(k, y, tmp, c, is_current, cmap) ==
    IF k = 0 THEN << >>
    ELSE LET before == PanelTraces(k - 1, y, tmp, c, is_current, cmap)
         IN  IF SkipPanel(panels[k].col, c) THEN before
             ELSE Append(before, Trace(y, tmp, panels[k], is_current, cmap))

\* lines 152-176 for the first k years of sorted(years_selected)
RECURSIVE LoopTraces(_, _, _, _, _, _)
LoopTraces(k, order, plot, c, cur, cmap) ==
    IF k = 0 THEN << >>
    ELSE LoopTraces(k - 1, order, plot, c, cur, cmap)
         \o PanelTraces(Len(panels), order[k], YearRows(plot, order[k]), c,
                        order[k] = cur, cmap)

\* line 182
TitleWithoutCrop(trader, crop) == << "Cotton", trader >>
Title(trader, crop) == << "Cotton", trader, crop >>

\* line 188
NeedsNote(c) == c.spread = None

NoTitle == << >>

\* make_subplots: the subplot titles are annotations of the layout
EmptyFigure ==
    [built |-> TRUE, traces |-> << >>, annotations |-> subplot_titles,
     title |-> NoTitle, legend_title |-> ""]

NoChart ==
    [built |-> FALSE, traces |-> << >>, annotations |-> << >>,
     title |-> NoTitle, legend_title |-> ""]

\* the figure after line 195
Figure(ys, plot, c, trader, crop, cur, cmap) ==
    [built |-> TRUE,
     traces |-> LoopTraces(Len(ys), sorted(ys), plot, c, cur, cmap),
     annotations |-> IF NeedsNote(c) THEN Append(subplot_titles, SpreadNote)
                     ELSE subplot_titles,
     title |-> Title(trader, crop),
     legend_title |-> "Year"]

-----------------------------------------------------------------------------
(* One render pass: the script from line 31 to line 197 *)

\* value of a script variable that the pass did not assign
Unbound == "unbound"

RunScript(sel, trader, crop, fresh) ==
    LET hit == CacheHit(cache)
        entry == CacheAfterLoad(cache, file)
        frame == Derive(entry)
        av == AvailableYears(frame)
        ys == IF fresh THEN DefaultYears(av) ELSE sel
        c == ColumnsOf(trader, crop)
        plot == DfPlot(frame, ys, c)
        cur == CurrentYear(ys, av)
        cmap == ColorMap(ys)
    IN  /\ passes' = passes + 1
        /\ cache' = entry
        /\ reads' = reads + ReadsOfLoad(cache)
        /\ derives' = derives + DerivesOfPass(hit)
        /\ df' = frame
        /\ available_years' = av
        /\ IF PyMax(av).raised
           THEN \* line 51 raises: the sidebar widgets are never created
                /\ halted' = "line51"
                /\ current_year' = Unbound
                /\ years_selected' = Unbound
                /\ trader_choice' = Unbound
                /\ crop_choice' = Unbound
                /\ cols' = Unbound
                /\ df_plot' = Unbound
                /\ color_map' = Unbound
                /\ fig' = NoChart
                /\ chart' = NoChart
           ELSE /\ years_selected' = ys
                /\ trader_choice' = trader
                /\ crop_choice' = crop
                /\ cols' = c
                /\ df_plot' = plot
                /\ IF PyMax(ys).raised
                   THEN \* line 146 raises
                        /\ halted' = "line146"
                        /\ current_year' = PyMax(av).value
                        /\ color_map' = Unbound
                        /\ fig' = EmptyFigure
                        /\ chart' = NoChart
                   ELSE /\ halted' = "none"
                        /\ current_year' = cur
                        /\ color_map' = cmap
                        /\ fig' = Figure(ys, plot, c, trader, crop, cur, cmap)
                        /\ chart' = fig'

\* widgets exist in the page once line 102 has been passed
WidgetsShown == session = "open" /\ halted \in {"none", "line146"}

\* a browser opens or reloads the page: a new session, widgets at their defaults
OpenPage ==
    /\ passes < MaxPasses
    /\ session' = "open"
    /\ RunScript(<< >>, TraderNames[1], CropNames[1], TRUE)
    /\ UNCHANGED file

\* the script is run again with the widgets as they are
Rerun ==
    /\ passes < MaxPasses
    /\ session = "open"
    /\ IF halted = "line51"
       THEN RunScript(<< >>, TraderNames[1], CropNames[1], TRUE)
       ELSE RunScript(years_selected, trader_choice, crop_choice, FALSE)
    /\ UNCHANGED << file, session >>

\* the user adds a year to the multiselect: it goes to the end of the value
SelectYear(y) ==
    /\ passes < MaxPasses
    /\ WidgetsShown
    /\ y \in Range(available_years) \ Range(years_selected)
    /\ RunScript(Append(years_selected, y), trader_choice, crop_choice, FALSE)
    /\ UNCHANGED << file, session >>

Without(s, y) ==
    LET keep == {i \in 1..Len(s) : s[i] # y}
        Nth(k) == CHOOSE i \in keep : Cardinality({j \in keep : j < i}) = k - 1
    IN  [k \in 1..Cardinality(keep) |-> s[Nth(k)]]

\* the user removes a year from the multiselect
DeselectYear(y) ==
    /\ passes < MaxPasses
    /\ WidgetsShown
    /\ y \in Range(years_selected)
    /\ RunScript(Without(years_selected, y), trader_choice, crop_choice, FALSE)
    /\ UNCHANGED << file, session >>

ChooseTrader(t) ==
    /\ passes < MaxPasses
    /\ WidgetsShown
    /\ t # trader_choice
    /\ RunScript(years_selected, t, crop_choice, FALSE)
    /\ UNCHANGED << file, session >>

ChooseCrop(c) ==
    /\ passes < MaxPasses
    /\ WidgetsShown
    /\ c # crop_choice
    /\ RunScript(years_selected, trader_choice, c, FALSE)
    /\ UNCHANGED << file, session >>

-----------------------------------------------------------------------------
(* The sheets the interactive specification starts from *)

ReportDate == "report_date_as_yyyy_mm_dd"

DataColumns ==
    << "prod_merc_positions_long", "prod_merc_positions_short",
       "swap_positions_long_all", "swap__positions_short_all",
       "swap__positions_spread_all",
       "m_money_positions_long_all", "m_money_positions_short_all",
       "m_money_positions_spread",
       "other_rept_positions_long", "other_rept_positions_short",
       "other_rept_positions_spread",
       "nonrept_positions_long_all", "nonrept_positions_short_all" >>

\* a sheet row: the report date and one cell per column, given in the order
\* of DataColumns
SheetRow(date, values, columns) ==
    [report_date |-> date,
     cells |-> [c \in columns \cap Range(DataColumns) |->
                  values[CHOOSE i \in 1..Len(DataColumns) : DataColumns[i] = c]]]

RowPool ==
    << << 20190108,
          << Num(5), Num(2), Num(3), Num(1), Num(4), Num(7), Num(7), Num(1),
             Num(2), Num(6), Num(0), Num(1), Num(3) >> >>,
       << 20200303,
          << Txt(<< "1", "2" >>), Num(4), Txt(<< "x" >>), Num(1), NaN, NaN,
             Num(2), Txt(<< "n", "a" >>), Num(4), NaN, Num(2),
             Txt(<< "-", "3" >>), Num(1) >> >>,
       << 20211228,
          << Num(2), Num(5), Num(6), Num(6), Num(2), Num(9), Num(4), Num(3),
             NaN, NaN, NaN, Num(8), Txt(<< "8" >>) >> >>,
       << 20200107,
          << Num(1), Num(1), Num(2), Num(3), Num(5), Num(4), Num(1), Num(2),
             Num(3), Num(3), Num(1), Num(6), Num(2) >> >> >>

ColumnSets ==
    { {ReportDate} \cup Range(DataColumns),
      {ReportDate} \cup (Range(DataColumns)
          \ {"prod_merc_positions_long", "swap__positions_spread_all"}) }

\* the ways to pick at most MaxRows different rows of the pool, in any order
RowPicks ==
    { pick \in UNION {[1..n -> 1..Len(RowPool)] : n \in 0..MaxRows} :
        \A i, j \in 1..Len(pick) : i # j => pick[i] # pick[j] }

Sheets ==
    { [columns |-> cs,
       rows |-> [i \in 1..Len(pick) |->
                   SheetRow(RowPool[pick[i]][1], RowPool[pick[i]][2], cs)]] :
      cs \in ColumnSets, pick \in RowPicks }

\* the process has started; no browser has opened the page
ProcessStarted ==
    /\ cache = NoTable
    /\ reads = 0
    /\ derives = 0
    /\ passes = 0
    /\ halted = "notrun"
    /\ df = Unbound
    /\ available_years = Unbound
    /\ cols = Unbound
    /\ df_plot = Unbound
    /\ current_year = Unbound
    /\ color_map = Unbound
    /\ fig = NoChart
    /\ chart = NoChart

Init ==
    /\ file \in Sheets
    /\ ProcessStarted
    /\ session = "none"
    /\ years_selected = Unbound
    /\ trader_choice = Unbound
    /\ crop_choice = Unbound

Next ==
    \/ OpenPage
    \/ Rerun
    \/ \E y \in Range(AvailableYears(Derive(file))) : SelectYear(y)
    \/ \E y \in Range(AvailableYears(Derive(file))) : DeselectYear(y)
    \/ \E t \in Range(TraderNames) : ChooseTrader(t)
    \/ \E c \in Range(CropNames) : ChooseCrop(c)

Spec == Init /\ [][Next]_vars

-----------------------------------------------------------------------------
(* Sheets with many years.  Each row is the first row of the pool moved to *)
(* another report date.                                                    *)

YearRow(y, mmdd) ==
    SheetRow(y * 10000 + mmdd, RowPool[1][2], {ReportDate} \cup Range(DataColumns))

\* the members of a set of numbers in ascending order
Ascending(S) ==
    [k \in 1..Cardinality(S) |->
        CHOOSE y \in S : Cardinality({z \in S : z < y}) = k - 1]

Reverse(s) == [k \in 1..Len(s) |-> s[Len(s) + 1 - k]]

Rotate(s, n) == [k \in 1..Len(s) |-> s[((k - 1 + n) % Len(s)) + 1]]

\* some of the orders in which the years of S can stand in a sequence
Orders(S) ==
    LET up == Ascending(S)
    IN  IF S = {} THEN {<< >>}
        ELSE {up, Reverse(up), Rotate(up, 1), Rotate(up, Len(up) \div 2)}

\* the sheets of the default-selection specification: any set of up to
\* MaxDefaultYears years, the rows in some order, a year possibly twice
DefaultSheets ==
    { [columns |-> {ReportDate} \cup Range(DataColumns),
       rows |-> [i \in 1..Len(order) |-> YearRow(order[i], 107)]
                \o (IF again /\ order # << >>
                    THEN << YearRow(order[1], 609) >> ELSE << >>)] :
      order \in UNION {Orders(S) :
                         S \in SUBSET (2001..(2000 + MaxDefaultYears))},
      again \in BOOLEAN }

InitDefault ==
    /\ file \in DefaultSheets
    /\ ProcessStarted
    /\ session = "none"
    /\ years_selected = Unbound
    /\ trader_choice = Unbound
    /\ crop_choice = Unbound

NextDefault == OpenPage \/ Rerun

SpecDefault == InitDefault /\ [][NextDefault]_vars

\* the sheet of the colour specification: one row for each of MaxColorYears years
ColorYears == 2001..(2000 + MaxColorYears)

ColorSheet ==
    [columns |-> {ReportDate} \cup Range(DataColumns),
     rows |-> [i \in 1..MaxColorYears |-> YearRow(2000 + i, 107)]]

\* a session whose multiselect holds some years of the sheet, chosen by the
\* user in some order; the script is about to run
InitColor ==
    /\ file = ColorSheet
    /\ ProcessStarted
    /\ session = "open"
    /\ years_selected \in
          UNION {Orders(S) : S \in {T \in SUBSET ColorYears :
                                      Cardinality(ColorYears \ T) <= MaxUnselected}}
    /\ trader_choice = TraderNames[1]
    /\ crop_choice = CropNames[1]

NextColor == Rerun

SpecColor == InitColor /\ [][NextColor]_vars

-----------------------------------------------------------------------------
(* Properties *)

\* the last pass reached st.plotly_chart
ChartShown == halted = "none"

\* the last pass got past line 128
SeriesComputed == halted \in {"none", "line146"}

\* the rows of df whose year is selected
SelectedRows ==
    {i \in 1..Len(df.rows) : df.rows[i].year \in Range(years_selected)}

IsNumber(v) == v.t = "num"

\* C1: after every pass that computed the series, df_plot has one row for
\* each row of df whose year is selected, and in every such row where
\* pos_long and pos_short are both numbers, pos_net is the number
\* pos_long - pos_short; pos_long and pos_short are the coerced cells of the
\* selected trader's long and short columns
NetIsLongMinusShort ==
    SeriesComputed =>
        /\ Len(df_plot) = Cardinality(SelectedRows)
        /\ \A i \in 1..Len(df_plot) :
              LET r == df_plot[i]
                  src == df.rows[CHOOSE k \in SelectedRows :
                            Cardinality({j \in SelectedRows : j < k}) = i - 1]
                  names == trader_map(trader_choice)
              IN  /\ names.long \in file.columns =>
                        r.pos_long = ToNumeric(src.cells[names.long])
                  /\ names.short \in file.columns =>
                        r.pos_short = ToNumeric(src.cells[names.short])
                  /\ IsNumber(r.pos_long) /\ IsNumber(r.pos_short) =>
                        /\ IsNumber(r.pos_net)
                        /\ r.pos_net.n = r.pos_long.n - r.pos_short.n

\* a plotted row of a category other than the first whose long and short are
\* numbers, short the larger, and whose net is their difference
NetWitness ==
    /\ ChartShown
    /\ trader_choice = "Nonreportables"
    /\ \E i \in 1..Len(df_plot) :
          /\ IsNumber(df_plot[i].pos_long) /\ IsNumber(df_plot[i].pos_short)
          /\ df_plot[i].pos_long.n < df_plot[i].pos_short.n
          /\ df_plot[i].pos_net = Num(df_plot[i].pos_long.n - df_plot[i].pos_short.n)

\* C2: when the selected trader has no spread column (PMPU, Nonreportables),
\* pos_spread is missing in every plotted row and a chart that is shown has
\* no trace in panel (2, 2) and carries the advisory annotation; when the
\* trader has a spread column the chart does not carry the annotation
SpreadGuard ==
    /\ SeriesComputed /\ trader_choice \in {"PMPU", "Nonreportables"} =>
          \A i \in 1..Len(df_plot) : IsMissing(df_plot[i].pos_spread)
    /\ ChartShown /\ trader_choice \in {"PMPU", "Nonreportables"} =>
          /\ \A k \in 1..Len(chart.traces) :
                ~(chart.traces[k].row = 2 /\ chart.traces[k].col = 2)
          /\ SpreadNote \in Range(chart.annotations)
    /\ ChartShown /\ trader_choice \notin {"PMPU", "Nonreportables"} =>
          SpreadNote \notin Range(chart.annotations)

\* a chart of Nonreportables with plotted rows and the annotation
SpreadWitness ==
    /\ ChartShown
    /\ trader_choice = "Nonreportables"
    /\ Len(df_plot) > 1
    /\ Len(chart.traces) > 3
    /\ SpreadNote \in Range(chart.annotations)

IsMaxSelected(y) ==
    y \in Range(years_selected) /\ \A z \in Range(years_selected) : z <= y

\* C3: in every chart shown, every selected year has traces, the traces of
\* the largest selected year have width 4 and opacity 1.0, and the traces of
\* every other selected year have width 1.5 and opacity 0.6
EmphasisIsMaxSelected ==
    ChartShown =>
        /\ {chart.traces[k].name : k \in 1..Len(chart.traces)} = Range(years_selected)
        /\ \A k \in 1..Len(chart.traces) :
              LET t == chart.traces[k]
              IN  IF IsMaxSelected(t.name)
                  THEN t.width = "4" /\ t.opacity = "1.0"
                  ELSE t.width = "1.5" /\ t.opacity = "0.6"

\* a chart of two years, neither of them the last year of the data
EmphasisWitness ==
    /\ ChartShown
    /\ Len(years_selected) = 2
    /\ \E y \in Range(available_years) : \A z \in Range(years_selected) : z < y
    /\ \E k \in 1..Len(chart.traces) : chart.traces[k].width = "4"
    /\ \E k \in 1..Len(chart.traces) : chart.traces[k].width = "1.5"

\* number of selected years below y
RankOf(y) == Cardinality({z \in Range(years_selected) : z < y})

\* C4: in every chart shown, the colour of every trace of a year is the
\* palette entry at (number of selected years below it) modulo the palette
\* length: it is a function of the set of selected years alone, whatever
\* the order in which they were selected
ColourBySortedPosition ==
    ChartShown =>
        /\ \A k \in 1..Len(chart.traces) :
              chart.traces[k].color =
                  palette[(RankOf(chart.traces[k].name) % Len(palette)) + 1]
        /\ \A y \in Range(years_selected) :
              color_map[y] = palette[(RankOf(y) % Len(palette)) + 1]

\* a chart of more years than the palette has colours, selected in an order
\* that is not ascending
ColourWitness ==
    /\ ChartShown
    /\ Len(years_selected) > Len(palette)
    /\ years_selected[1] > years_selected[Len(years_selected)]
    /\ \E k \in 1..Len(chart.traces) :
          /\ chart.traces[k].name = years_selected[1]
          /\ chart.traces[k].color = palette[1]

\* two successive passes that computed the series and differ in the crop only
CropOnlyChange ==
    /\ SeriesComputed
    /\ SeriesComputed'
    /\ years_selected' = years_selected
    /\ trader_choice' = trader_choice
    /\ crop_choice' # crop_choice

\* C5: a pass that differs from the one before it in the crop only uses the
\* same column names and computes the same pos_long, pos_short, pos_net and
\* pos_spread
CropLeavesSeries ==
    [][CropOnlyChange => cols' = cols /\ df_plot' = df_plot]_vars

\* a chart of Old Crop for a trader with three columns, with a number plotted
CropSeriesWitness ==
    /\ ChartShown
    /\ crop_choice = "Old Crop"
    /\ trader_choice = "Swap Dealer"
    /\ \E i \in 1..Len(df_plot) : IsNumber(df_plot[i].pos_net)

\* C6 as claimed: a pass that differs from the one before it in the crop
\* only shows the same chart, title included
CropLeavesChart ==
    [][CropOnlyChange /\ ChartShown /\ ChartShown' => chart' = chart]_vars

\* C6 amended: such a pass shows the same traces, annotations and legend
\* title, and a chart title that differs in the crop label it carries
CropChangesTitleOnly ==
    [][CropOnlyChange /\ ChartShown /\ ChartShown' =>
          /\ chart'.traces = chart.traces
          /\ chart'.annotations = chart.annotations
          /\ chart'.legend_title = chart.legend_title
          /\ chart'.title # chart.title
          /\ chart.title = << "Cotton", trader_choice, crop_choice >>
          /\ chart'.title = << "Cotton", trader_choice, crop_choice' >>]_vars

\* a chart with traces shown for Other Crop
CropTitleWitness ==
    /\ ChartShown
    /\ crop_choice = "Other Crop"
    /\ Len(chart.traces) > 0
    /\ chart.title[3] = "Other Crop"

\* C7: in one process the file is read by the first pass and by no later
\* pass: after any number of passes it has been read once, and the cache
\* holds the sheet as read
LoadedOnce ==
    /\ passes = 0 => reads = 0 /\ ~cache.loaded
    /\ passes >= 1 =>
          /\ reads = 1
          /\ cache = [columns |-> file.columns, rows |-> file.rows, loaded |-> TRUE]

\* a third pass has run
LoadedOnceWitness == passes >= 3 /\ session = "open" /\ reads = 1

\* C8 as claimed: the derivation step has run exactly once however many
\* passes have run
DerivedOnce == passes >= 1 => derives = 1

\* C8 amended: the derivation step runs once in every pass, on the table
\* load_data() returned, so after n passes it has run n times (the file
\* having been read once)
DerivedEveryPass ==
    /\ derives = passes
    /\ reads <= 1
    /\ passes >= 1 =>
          /\ Len(df.rows) = Len(cache.rows)
          /\ \A i \in 1..Len(df.rows) :
                /\ df.rows[i].year = cache.rows[i].report_date \div 10000
                /\ df.rows[i].seasonal_date.y = 2000
                /\ "year" \notin DOMAIN cache.rows[i]

\* a second pass has derived the columns again, on a sheet with rows
DerivedWitness == passes >= 2 /\ derives = passes /\ Len(df.rows) > 0

\* the years that occur in the sheet
SheetYears == {file.rows[i].report_date \div 10000 : i \in 1..Len(file.rows)}

\* C9: the default of the multiselect is the six largest distinct years of
\* the sheet (all of them when there are fewer than six), each once, in
\* ascending order
DefaultIsLastSix ==
    SeriesComputed =>
        /\ Range(years_selected) =
              {y \in SheetYears : Cardinality({z \in SheetYears : z > y}) < 6}
        /\ Range(years_selected) \subseteq Range(available_years)
        /\ Range(available_years) = SheetYears
        /\ Len(years_selected) = Cardinality(Range(years_selected))
        /\ \A i \in 1..(Len(years_selected) - 1) :
              years_selected[i] < years_selected[i + 1]

\* a sheet of more than six years, its rows not in ascending order and one
\* year twice, whose default leaves the earlier years out
DefaultWitness ==
    /\ ChartShown
    /\ Cardinality(SheetYears) > 6
    /\ Len(file.rows) > Cardinality(SheetYears)
    /\ file.rows[1].report_date > file.rows[2].report_date
    /\ Len(years_selected) = 6
    /\ \E y \in SheetYears : y \notin Range(years_selected)

\* the columns the selected trader needs are in the sheet
TraderColumnsExist ==
    /\ trader_map(trader_choice).long \in file.columns
    /\ trader_map(trader_choice).short \in file.columns
    /\ trader_map(trader_choice).spread \in file.columns \cup {None}

\* C10: a pass whose multiselect value is empty ends with the error of line
\* 146 and shows no chart; a pass whose multiselect value is not empty, for
\* a trader whose columns are in the sheet, shows the chart
EmptySelectionHalts ==
    SeriesComputed =>
        /\ years_selected = << >> =>
              halted = "line146" /\ ~chart.built
        /\ years_selected # << >> /\ TraderColumnsExist =>
              halted = "none" /\ chart.built /\ chart = fig

\* the user has removed every year from a sheet that has rows
EmptySelectionWitness ==
    /\ halted = "line146"
    /\ passes >= 2
    /\ Len(df.rows) > 0
    /\ years_selected = << >>
    /\ ~chart.built

====
